---- MODULE Spec2Model ----
(***************************************************************************)
(* The in-memory booking server of src/lib/bookingClient.ts (MockServer):  *)
(* a slot table, a lock (lease) table, a version counter, a subscriber     *)
(* set, and the operations lockSlot, confirmBooking, releaseLock,          *)
(* gcExpiredLocks, subscribe and listSlots.  Each async handler awaits a   *)
(* delay and then runs its body without yielding, so each body is one      *)
(* atomic action whose request is chosen when the body runs.               *)
(***************************************************************************)
EXTENDS Integers, Sequences, FiniteSets, TLC

\* ---- bounds of the model ------------------------------------------------
NumSlots == 1
MaxTicks == 1
\* locks drawn in Spec, in SpecDeep, and in SpecNotify (which also runs
\* subscribe and unsubscribe)
MaxLocks == 2
MaxDeepLocks == 3
MaxNotifyLocks == 1

\* ---- program constants --------------------------------------------------
LeaseTTL == 10000
InitialVersion == 1

\* `undefined` of the source: for a string, for an optional number
\* (expectedVersion), for an id, and for the slot of a response
None == "none"
NoVersion == -1
NoId == 0
NoSlot == [status |-> None, lockedBy |-> None, booked |-> FALSE]

Users == {"alice", "bob"}
Observers == {"o1", "o2"}

\* slot i stands for the id `slot-${i}`; NumSlots + 1 is an id not in the table
SlotIds == 1 .. NumSlots
RequestSlotIds == 1 .. (NumSlots + 1)

\* the clock advances in steps of one lease
TickSteps == {LeaseTTL}
MaxNow == MaxTicks * LeaseTTL

VARIABLES
    slots,        \* SlotId -> [status, lockedBy, booked]
    locks,        \* lockId -> [slotId, userId, expiresAt], the Map `locks`
    version,      \* the store version
    subscribers,  \* the Set `subscribers`, in insertion order
    notified,     \* the callback calls the last step made: <<[to, event]>>, in call order
    now,          \* Date.now()
    nextLockId,   \* number of lock ids drawn so far, plus 1
    last,         \* the operation that ran last and what it returned
    gone,         \* history: the locks deleted so far, and by which operation
    held,         \* the snapshot a caller of listSlots, or an observer, has kept
    grid          \* the state of the TimeSlotGrid component

vars == <<slots, locks, version, subscribers, notified, now, nextLockId, last, gone,
          held, grid>>

\* the variables of the callers of the server
callers == <<held, grid>>

\* the tables and the counter of the server
store == <<slots, locks, version>>

\* ---- helpers ------------------------------------------------------------

\* what an operation leaves in `last`
Reply(op, ok, error, v, slotId, lockId, userId, ev, slot) ==
    [op |-> op, ok |-> ok, error |-> error, version |-> v, slotId |-> slotId,
     lockId |-> lockId, userId |-> userId, expectedVersion |-> ev, slot |-> slot]

\* Broadcast with the event built before the version is incremented
Broadcast_staleVersion(v) ==
    [i \in 1 .. Len(subscribers) |->
        [to |-> subscribers[i],
         event |-> [type |-> "slots:update", slots |-> slots', version |-> v - 1]]]

\* bumpVersionAndBroadcast: the callback of every current subscriber is
\* called once, in the order of the Set, with the slots as the mutation left
\* them and the new version
Broadcast(v) ==
    [i \in 1 .. Len(subscribers) |->
        [to |-> subscribers[i],
         event |-> [type |-> "slots:update", slots |-> slots', version |-> v]]]

\* RemoveLocks with the delete forgotten
RemoveLocks_keeps(ids) == locks

\* Map.delete for a set of keys
RemoveLocks(ids) == [l \in (DOMAIN locks) \ ids |-> locks[l]]

\* Map.set
PutLock(lockId, rec) ==
    [l \in (DOMAIN locks) \cup {lockId} |-> IF l = lockId THEN rec ELSE locks[l]]

\* lock n stands for the n-th id drawn by lockSlot (ids are never drawn twice);
\* the lock ids a caller can send: the ids drawn so far and one never drawn
RequestLockIds == 1 .. nextLockId

\* the expectedVersion values a caller can send: absent, 0 (the client's
\* version before its first list response), the current version, a stale one
ExpectedVersions == {NoVersion, 0, version, version - 1}

\* ---- lockSlot -----------------------------------------------------------

\* lockSlotError without the check of the owner of a locked slot
lockSlotError_noOwnerCheck(slotId, userId, ev) ==
    IF slotId \notin SlotIds THEN "NotFound"
    ELSE IF ev # NoVersion /\ ev # 0 /\ ev # version THEN "VersionConflict"
    ELSE IF slots[slotId].status = "booked" THEN "AlreadyBooked"
    ELSE IF slots[slotId].booked THEN "AlreadyBooked"
    ELSE None

\* the precondition checks of lockSlot, in order; None when they all pass
lockSlotError(slotId, userId, ev) ==
    IF slotId \notin SlotIds THEN "NotFound"
    ELSE IF ev # NoVersion /\ ev # 0 /\ ev # version THEN "VersionConflict"
    ELSE IF slots[slotId].status = "booked" THEN "AlreadyBooked"
    ELSE IF slots[slotId].booked THEN "AlreadyBooked"
    ELSE IF slots[slotId].status = "locked" /\ slots[slotId].lockedBy # userId
         THEN "LockedByOther"
    ELSE None

lockSlot(slotId, userId, ev) ==
    LET err == lockSlotError(slotId, userId, ev) IN
    IF err # None
    THEN /\ last' = Reply("lockSlot", FALSE, err, version, slotId, NoId, userId, ev, NoSlot)
         /\ notified' = << >>
         /\ UNCHANGED <<slots, locks, version, subscribers, now, nextLockId, gone>>
    ELSE /\ nextLockId <= MaxDeepLocks
         /\ locks' = PutLock(nextLockId,
                [slotId |-> slotId, userId |-> userId, expiresAt |-> now + LeaseTTL])
         /\ slots' = [slots EXCEPT ![slotId].status = "locked",
                                   ![slotId].lockedBy = userId]
         /\ version' = version + 1
         /\ notified' = Broadcast(version + 1)
         /\ nextLockId' = nextLockId + 1
         /\ last' = Reply("lockSlot", TRUE, None, version + 1, slotId, nextLockId,
                          userId, ev, NoSlot)
         /\ UNCHANGED <<subscribers, now, gone>>

\* ---- confirmBooking -----------------------------------------------------

\* confirmBookingError with the deadline itself still accepted (< for <=)
confirmBookingError_lateExpiry(lockId, userId) ==
    IF lockId \notin DOMAIN locks THEN "LockNotFound"
    ELSE IF locks[lockId].userId # userId THEN "LockNotFound"
    ELSE IF locks[lockId].expiresAt < now THEN "LockExpired"
    ELSE IF locks[lockId].slotId \notin SlotIds THEN "NotFound"
    ELSE IF slots[locks[lockId].slotId].status = "booked" THEN "AlreadyBooked"
    ELSE IF slots[locks[lockId].slotId].booked THEN "AlreadyBooked"
    ELSE None

\* the precondition checks of confirmBooking, in order; None when they all pass
confirmBookingError(lockId, userId) ==
    IF lockId \notin DOMAIN locks THEN "LockNotFound"
    ELSE IF locks[lockId].userId # userId THEN "LockNotFound"
    ELSE IF locks[lockId].expiresAt <= now THEN "LockExpired"
    ELSE IF locks[lockId].slotId \notin SlotIds THEN "NotFound"
    ELSE IF slots[locks[lockId].slotId].status = "booked" THEN "AlreadyBooked"
    ELSE IF slots[locks[lockId].slotId].booked THEN "AlreadyBooked"
    ELSE None

\* what a successful confirmBooking writes into the slot
\* confirmedSlot with the booked flag set by the confirmation
confirmedSlot_marksBooked(slot) ==
    [slot EXCEPT !.booked = TRUE, !.lockedBy = None, !.status = "available"]

\* the writes of a successful confirmBooking: booked is (re)set to false and
\* the slot goes back to available, with no owner
confirmedSlot(slot) ==
    [slot EXCEPT !.booked = FALSE, !.lockedBy = None, !.status = "available"]

\* the slot a request names through its lock, NoId when the lock is unknown
SlotOfLock(lockId) ==
    IF lockId \in DOMAIN locks THEN locks[lockId].slotId ELSE NoId

\* confirmBooking that deletes the lock it finds expired before it returns the error
confirmBooking_dropsExpired(lockId, userId) ==
    LET err == confirmBookingError(lockId, userId) IN
    IF err # None
    THEN /\ last' = Reply("confirmBooking", FALSE, err, version, SlotOfLock(lockId),
                          lockId, userId, NoVersion, NoSlot)
         /\ locks' = IF err = "LockExpired" THEN RemoveLocks({lockId}) ELSE locks
         /\ notified' = << >>
         /\ UNCHANGED <<slots, version, subscribers, now, nextLockId, gone>>
    ELSE LET slotId == locks[lockId].slotId IN
         /\ slots' = [slots EXCEPT ![slotId] = confirmedSlot(slots[slotId])]
         /\ locks' = RemoveLocks({lockId})
         /\ version' = version + 1
         /\ notified' = Broadcast(version + 1)
         /\ last' = Reply("confirmBooking", TRUE, None, version + 1, slotId, lockId,
                          userId, NoVersion, confirmedSlot(slots[slotId]))
         /\ gone' = gone \cup {[lockId |-> lockId, slotId |-> slotId,
                                userId |-> locks[lockId].userId, by |-> "confirmBooking",
                                reverted |-> TRUE]}
         /\ UNCHANGED <<subscribers, now, nextLockId>>

confirmBooking(lockId, userId) ==
    LET err == confirmBookingError(lockId, userId) IN
    IF err # None
    THEN /\ last' = Reply("confirmBooking", FALSE, err, version, SlotOfLock(lockId),
                          lockId, userId, NoVersion, NoSlot)
         /\ notified' = << >>
         /\ UNCHANGED <<slots, locks, version, subscribers, now, nextLockId, gone>>
    ELSE LET slotId == locks[lockId].slotId IN
         /\ slots' = [slots EXCEPT ![slotId] = confirmedSlot(slots[slotId])]
         /\ locks' = RemoveLocks({lockId})
         /\ version' = version + 1
         /\ notified' = Broadcast(version + 1)
         /\ last' = Reply("confirmBooking", TRUE, None, version + 1, slotId, lockId,
                          userId, NoVersion, confirmedSlot(slots[slotId]))
         /\ gone' = gone \cup {[lockId |-> lockId, slotId |-> slotId,
                                userId |-> locks[lockId].userId, by |-> "confirmBooking",
                                reverted |-> TRUE]}
         /\ UNCHANGED <<subscribers, now, nextLockId>>

\* ---- releaseLock --------------------------------------------------------

\* releaseLockError without the check of the owner
releaseLockError_noOwnerCheck(lockId, userId) ==
    IF lockId \notin DOMAIN locks THEN "LockNotFound"
    ELSE None

releaseLockError(lockId, userId) ==
    IF lockId \notin DOMAIN locks THEN "LockNotFound"
    ELSE IF locks[lockId].userId # userId THEN "Forbidden"
    ELSE None

\* revertedSlot that leaves the owner in the slot
revertedSlot_keepsOwner(slot) ==
    IF slot.status = "locked"
    THEN [slot EXCEPT !.status = "available"]
    ELSE slot

\* the slot after a release or an expiry of a lock on it
revertedSlot(slot) ==
    IF slot.status = "locked"
    THEN [slot EXCEPT !.status = "available", !.lockedBy = None]
    ELSE slot

releaseLock(lockId, userId) ==
    LET err == releaseLockError(lockId, userId) IN
    IF err # None
    THEN /\ last' = Reply("releaseLock", FALSE, err, version, SlotOfLock(lockId),
                          lockId, userId, NoVersion, NoSlot)
         /\ notified' = << >>
         /\ UNCHANGED <<slots, locks, version, subscribers, now, nextLockId, gone>>
    ELSE LET slotId == locks[lockId].slotId IN
         /\ locks' = RemoveLocks({lockId})
         /\ slots' = [s \in SlotIds |->
                        IF s = slotId THEN revertedSlot(slots[s]) ELSE slots[s]]
         /\ version' = version + 1
         /\ notified' = Broadcast(version + 1)
         /\ last' = Reply("releaseLock", TRUE, None, version + 1, slotId, lockId,
                          userId, NoVersion, NoSlot)
         /\ gone' = gone \cup {[lockId |-> lockId, slotId |-> slotId,
                                userId |-> locks[lockId].userId, by |-> "releaseLock",
                                reverted |-> slots[slotId].status = "locked"]}
         /\ UNCHANGED <<subscribers, now, nextLockId>>

\* ---- gcExpiredLocks -----------------------------------------------------

\* expiredLockIds with the deadline itself not yet counted as expired (< for <=)
expiredLockIds_strict == {l \in DOMAIN locks : locks[l].expiresAt < now}

\* the locks whose deadline has passed: rec.expiresAt <= now
expiredLockIds == {l \in DOMAIN locks : locks[l].expiresAt <= now}

\* the slots an expired lock points at and that are locked: the sweep reverts them
SweptSlots ==
    {s \in SlotIds : /\ slots[s].status = "locked"
                     /\ \E l \in expiredLockIds : locks[l].slotId = s}

\* `changed` set by every sweep
changed_always == TRUE

\* the flag `changed` of the sweep
changed == SweptSlots # {}

\* gcExpiredLocks that reverts the slots and leaves the expired locks in the Map
gcExpiredLocks_keepsLocks ==
    /\ slots' = [s \in SlotIds |->
                    IF s \in SweptSlots THEN revertedSlot(slots[s]) ELSE slots[s]]
    /\ locks' = locks
    /\ version' = IF changed THEN version + 1 ELSE version
    /\ notified' = IF changed THEN Broadcast(version + 1) ELSE << >>
    /\ last' = Reply("gcExpiredLocks", changed, None,
                     IF changed THEN version + 1 ELSE version,
                     NoId, NoId, None, NoVersion, NoSlot)
    /\ gone' = gone \cup {[lockId |-> l, slotId |-> locks[l].slotId,
                           userId |-> locks[l].userId, by |-> "gcExpiredLocks",
                           reverted |-> locks[l].slotId \in SweptSlots] :
                          l \in expiredLockIds}
    /\ UNCHANGED <<subscribers, now, nextLockId>>

gcExpiredLocks ==
    /\ slots' = [s \in SlotIds |->
                    IF s \in SweptSlots THEN revertedSlot(slots[s]) ELSE slots[s]]
    /\ locks' = RemoveLocks(expiredLockIds)
    /\ version' = IF changed THEN version + 1 ELSE version
    /\ notified' = IF changed THEN Broadcast(version + 1) ELSE << >>
    /\ last' = Reply("gcExpiredLocks", changed, None,
                     IF changed THEN version + 1 ELSE version,
                     NoId, NoId, None, NoVersion, NoSlot)
    /\ gone' = gone \cup {[lockId |-> l, slotId |-> locks[l].slotId,
                           userId |-> locks[l].userId, by |-> "gcExpiredLocks",
                           reverted |-> locks[l].slotId \in SweptSlots] :
                          l \in expiredLockIds}
    /\ UNCHANGED <<subscribers, now, nextLockId>>

\* ---- subscribe, listSlots, the clock ------------------------------------

IsSubscribed(o) == \E i \in 1 .. Len(subscribers) : subscribers[i] = o

\* Set.add keeps an element that is already there at its place
subscribe(o) ==
    /\ subscribers' = IF IsSubscribed(o) THEN subscribers ELSE Append(subscribers, o)
    /\ last' = Reply("subscribe", TRUE, None, version, NoId, NoId, o, NoVersion, NoSlot)
    /\ notified' = << >>
    /\ UNCHANGED <<slots, locks, version, now, nextLockId, gone>>

\* the function subscribe returns: Set.delete
unsubscribe(o) ==
    /\ subscribers' = SelectSeq(subscribers, LAMBDA x : x # o)
    /\ last' = Reply("unsubscribe", IsSubscribed(o), None, version, NoId, NoId, o,
                     NoVersion, NoSlot)
    /\ notified' = << >>
    /\ UNCHANGED <<slots, locks, version, now, nextLockId, gone>>

listSlots ==
    /\ last' = Reply("listSlots", TRUE, None, version, NoId, NoId, None, NoVersion, NoSlot)
    /\ notified' = << >>
    /\ UNCHANGED <<slots, locks, version, subscribers, now, nextLockId, gone>>

\* time passes
Tick(d) ==
    /\ now + d <= MaxNow
    /\ now' = now + d
    /\ last' = Reply("tick", TRUE, None, version, NoId, NoId, None, NoVersion, NoSlot)
    /\ notified' = << >>
    /\ UNCHANGED <<slots, locks, version, subscribers, nextLockId, gone>>

\* time passes while a lease is still running: the clock does not stop
\* before the deadline of a lease that is in the table
Advance(d) ==
    /\ \E l \in DOMAIN locks : now < locks[l].expiresAt
    /\ now' = now + d
    /\ last' = Reply("tick", TRUE, None, version, NoId, NoId, None, NoVersion, NoSlot)
    /\ notified' = << >>
    /\ UNCHANGED <<slots, locks, version, subscribers, nextLockId, gone>>

\* ---- the callers ---------------------------------------------------------

\* nothing kept yet
NoSnapshot == [from |-> None, version |-> NoVersion, refs |-> {}, taken |-> << >>]

\* Array.from(this.slots.values()): a new array of references to the slot
\* objects of the server, with the version it was handed out at; `taken` is
\* the history of what the slots were at that moment
Snapshot(from, v, sl) ==
    [from |-> from, version |-> v, refs |-> SlotIds, taken |-> sl]

\* what the holder of a snapshot reads through its references
SnapshotView(h) == [s \in h.refs |-> slots[s]]

\* the caller of listSlots keeps the response
KeepListResponse == held' = Snapshot("listSlots", version, slots)

\* an observer keeps the slots of the event it was called with, if it was called
KeepEvent ==
    held' = IF notified' # << >>
            THEN Snapshot("event", notified'[1].event.version, notified'[1].event.slots)
            ELSE held

\* ---- the TimeSlotGrid component -------------------------------------------

\* the callback the component subscribes, and the userId it drew
GridObserver == "grid"
GridUser == "alice"
\* the users behind the other callers of the server
OtherUsers == Users \ {GridUser}

\* no transient entry, no request in flight for the slot
IdleFlow == [phase |-> "idle", ev |-> NoVersion, lockId |-> NoId]

\* useState initializer of TimeSlotGrid: version 0 and no slots. `effect` is
\* where the load-and-subscribe effect stands (`mounted` of the source is
\* effect = "run"), `snapVersion` the version state.slots was taken at (0: the
\* empty list), `highest` the history of the highest version seen in any
\* event or response, `flows` the transient entry of each slot with the
\* values its pending onClickAvailable call holds
InitialGrid ==
    [effect |-> "none", listPending |-> FALSE, version |-> 0, snapVersion |-> 0,
     highest |-> 0, flows |-> [s \in SlotIds |-> IdleFlow], myBooked |-> {}]

Max(a, b) == IF a >= b THEN a ELSE b

\* GridOnEvent with the version comparison left out: every event is applied
GridOnEvent_noGuard(g, evt) ==
    [g EXCEPT !.version = evt.version, !.snapVersion = evt.version,
              !.highest = Max(@, evt.version)]

\* the updater of the subscription: an event that is not newer than the
\* local version leaves the state as it is, a newer one replaces slots and
\* version
GridOnEvent(g, evt) ==
    IF evt.version <= g.version
    THEN [g EXCEPT !.highest = Max(@, evt.version)]
    ELSE [g EXCEPT !.version = evt.version, !.snapVersion = evt.version,
                   !.highest = Max(@, evt.version)]

\* the events of one broadcast that reach the component
GridOnEvents(g, n) ==
    LET mine == SelectSeq(n, LAMBDA m : m.to = GridObserver)
    IN  IF mine = << >> THEN g ELSE GridOnEvent(g, mine[1].event)

\* the .then of listSlots: nothing after the cleanup, else slots and version
\* are replaced by those of the response
GridOnList(g, res) ==
    IF g.effect # "run"
    THEN [g EXCEPT !.listPending = FALSE]
    ELSE [g EXCEPT !.listPending = FALSE, !.version = res.version,
                   !.snapVersion = res.version, !.highest = Max(@, res.version)]

\* onClickAvailable after the await of lockSlot: a failure drops the transient
\* entry, a success marks the slot confirming and keeps the lock id; both
\* take the version of the response
GridOnLockResponse(g, slotId, res) ==
    IF ~res.ok
    THEN [g EXCEPT !.flows[slotId] = IdleFlow, !.version = res.version,
                   !.highest = Max(@, res.version)]
    ELSE [g EXCEPT !.flows[slotId] = [@ EXCEPT !.phase = "confirming",
                                               !.lockId = res.lockId],
                   !.version = res.version, !.highest = Max(@, res.version)]

\* onClickAvailable after the await of confirmBooking
GridOnConfirmResponse(g, slotId, res) ==
    [g EXCEPT !.flows[slotId] = IdleFlow, !.version = res.version,
              !.highest = Max(@, res.version),
              !.myBooked = IF res.ok THEN @ \cup {slotId} ELSE @]

\* the effect runs: listSlots is called, the callback is subscribed
GridMount ==
    /\ grid.effect = "none"
    /\ subscribe(GridObserver)
    /\ grid' = [grid EXCEPT !.effect = "run", !.listPending = TRUE]

\* the cleanup of the effect
GridUnmount ==
    /\ grid.effect = "run"
    /\ unsubscribe(GridObserver)
    /\ grid' = [grid EXCEPT !.effect = "cleaned"]

\* the listSlots call of the effect is served and its .then runs
GridListResponse ==
    /\ grid.listPending
    /\ listSlots
    /\ grid' = GridOnList(grid, last')

\* onClickAvailable up to the await: a slot the component shows, with no
\* transient entry and not booked, is marked locking and the request is sent
\* with the version of the state
GridClick(slotId) ==
    /\ grid.effect = "run"
    /\ grid.snapVersion > 0
    /\ grid.flows[slotId].phase = "idle"
    /\ slotId \notin grid.myBooked
    /\ grid' = [grid EXCEPT !.flows[slotId] =
                   [phase |-> "locking", ev |-> grid.version, lockId |-> NoId]]
    /\ last' = Reply("click", TRUE, None, version, slotId, NoId, GridUser,
                     grid.version, NoSlot)
    /\ notified' = << >>
    /\ UNCHANGED <<slots, locks, version, subscribers, now, nextLockId, gone>>

\* the server serves the lockSlot of the component: the callback runs during
\* the broadcast, the continuation of the await right after
GridLockRuns(slotId) ==
    /\ grid.flows[slotId].phase = "locking"
    /\ lockSlot(slotId, GridUser, grid.flows[slotId].ev)
    /\ grid' = GridOnLockResponse(GridOnEvents(grid, notified'), slotId, last')

\* the same for its confirmBooking
GridConfirmRuns(slotId) ==
    /\ grid.flows[slotId].phase = "confirming"
    /\ confirmBooking(grid.flows[slotId].lockId, GridUser)
    /\ grid' = GridOnConfirmResponse(GridOnEvents(grid, notified'), slotId, last')

\* a broadcast caused by somebody else reaches the component
GridHears == grid' = GridOnEvents(grid, notified')

Init ==
    /\ slots \in [SlotIds -> {[status |-> "available", lockedBy |-> None, booked |-> b] :
                                b \in BOOLEAN}]
    /\ locks = << >>
    /\ version = InitialVersion
    /\ subscribers = << >>
    /\ notified = << >>
    /\ now = 0
    /\ nextLockId = 1
    /\ last = Reply("init", TRUE, None, InitialVersion, NoId, NoId, None, NoVersion, NoSlot)
    /\ gone = {}
    /\ held = NoSnapshot
    /\ grid = InitialGrid

\* every operation of the server and the clock, with no subscriber
WithinBound == nextLockId' <= MaxLocks + 1

Next ==
    \/ \E s \in RequestSlotIds, u \in Users, ev \in ExpectedVersions :
          lockSlot(s, u, ev) /\ WithinBound /\ UNCHANGED callers
    \/ \E l \in RequestLockIds, u \in Users : confirmBooking(l, u) /\ UNCHANGED callers
    \/ \E l \in RequestLockIds, u \in Users : releaseLock(l, u) /\ UNCHANGED callers
    \/ gcExpiredLocks /\ UNCHANGED callers
    \/ listSlots /\ UNCHANGED callers
    \/ \E d \in TickSteps : Tick(d) /\ UNCHANGED callers

Spec == Init /\ [][Next]_vars

\* the same with one more lock
NextDeep ==
    \/ \E s \in RequestSlotIds, u \in Users, ev \in ExpectedVersions :
          lockSlot(s, u, ev) /\ UNCHANGED callers
    \/ \E l \in RequestLockIds, u \in Users : confirmBooking(l, u) /\ UNCHANGED callers
    \/ \E l \in RequestLockIds, u \in Users : releaseLock(l, u) /\ UNCHANGED callers
    \/ gcExpiredLocks /\ UNCHANGED callers
    \/ listSlots /\ UNCHANGED callers
    \/ \E d \in TickSteps : Tick(d) /\ UNCHANGED callers

SpecDeep == Init /\ [][NextDeep]_vars

\* the same with observers that subscribe and unsubscribe
WithinNotifyBound == nextLockId' <= MaxNotifyLocks + 1

NextNotify ==
    \/ \E s \in RequestSlotIds, u \in Users, ev \in ExpectedVersions :
          lockSlot(s, u, ev) /\ WithinNotifyBound /\ UNCHANGED callers
    \/ \E l \in RequestLockIds, u \in Users : confirmBooking(l, u) /\ UNCHANGED callers
    \/ \E l \in RequestLockIds, u \in Users : releaseLock(l, u) /\ UNCHANGED callers
    \/ gcExpiredLocks /\ UNCHANGED callers
    \/ \E o \in Observers : subscribe(o) /\ UNCHANGED callers
    \/ \E o \in Observers : unsubscribe(o) /\ UNCHANGED callers
    \/ listSlots /\ UNCHANGED callers
    \/ \E d \in TickSteps : Tick(d) /\ UNCHANGED callers

SpecNotify == Init /\ [][NextNotify]_vars

\* the server with a caller of listSlots and observers that keep what they
\* are handed
NextSnapshot ==
    \/ \E s \in RequestSlotIds, u \in Users, ev \in ExpectedVersions :
          lockSlot(s, u, ev) /\ WithinNotifyBound /\ KeepEvent /\ UNCHANGED grid
    \/ \E l \in RequestLockIds, u \in Users :
          confirmBooking(l, u) /\ KeepEvent /\ UNCHANGED grid
    \/ \E l \in RequestLockIds, u \in Users :
          releaseLock(l, u) /\ KeepEvent /\ UNCHANGED grid
    \/ gcExpiredLocks /\ KeepEvent /\ UNCHANGED grid
    \/ \E o \in Observers : subscribe(o) /\ UNCHANGED callers
    \/ \E o \in Observers : unsubscribe(o) /\ UNCHANGED callers
    \/ listSlots /\ KeepListResponse /\ UNCHANGED grid
    \/ \E d \in TickSteps : Tick(d) /\ UNCHANGED callers

SpecSnapshot == Init /\ [][NextSnapshot]_vars

\* the server with callers whose expectedVersion may also run ahead of the
\* store, so that a version conflict can be met at any version
AheadExpectedVersions == ExpectedVersions \cup {version + 1}

NextAhead ==
    \/ \E s \in RequestSlotIds, u \in Users, ev \in AheadExpectedVersions :
          lockSlot(s, u, ev) /\ WithinNotifyBound /\ UNCHANGED callers
    \/ \E l \in RequestLockIds, u \in Users : confirmBooking(l, u) /\ UNCHANGED callers
    \/ \E l \in RequestLockIds, u \in Users : releaseLock(l, u) /\ UNCHANGED callers
    \/ gcExpiredLocks /\ UNCHANGED callers
    \/ listSlots /\ UNCHANGED callers
    \/ \E d \in TickSteps : Tick(d) /\ UNCHANGED callers

SpecAhead == Init /\ [][NextAhead]_vars

\* the server with a clock that keeps running while a lease is pending and
\* with the sweep of setInterval taken again and again; time that passes
\* while no lease is pending moves no lease across its deadline and is left
\* out
LiveLockIds == 1 .. MaxNotifyLocks

NextLive ==
    \/ \E s \in RequestSlotIds, u \in Users, ev \in ExpectedVersions :
          lockSlot(s, u, ev) /\ WithinNotifyBound /\ UNCHANGED callers
    \/ \E l \in RequestLockIds, u \in Users : confirmBooking(l, u) /\ UNCHANGED callers
    \/ \E l \in RequestLockIds, u \in Users : releaseLock(l, u) /\ UNCHANGED callers
    \/ gcExpiredLocks /\ UNCHANGED callers
    \/ listSlots /\ UNCHANGED callers
    \/ \E d \in TickSteps : Advance(d) /\ UNCHANGED callers

SpecLive ==
    /\ Init /\ [][NextLive]_vars
    /\ WF_vars(gcExpiredLocks /\ UNCHANGED callers)
    /\ WF_vars(\E d \in TickSteps : Advance(d) /\ UNCHANGED callers)

\* the server with the TimeSlotGrid component and other callers; a refused
\* request of another caller changes nothing the component sees, so the other
\* callers ask for existing slots and send no expectedVersion. The callback
\* of the component is called by bumpVersionAndBroadcast alone, once per bump.
NextClient ==
    \/ GridMount /\ UNCHANGED held
    \/ GridUnmount /\ UNCHANGED held
    \/ GridListResponse /\ UNCHANGED held
    \/ \E s \in SlotIds : GridClick(s) /\ UNCHANGED held
    \/ \E s \in SlotIds : GridLockRuns(s) /\ WithinNotifyBound /\ UNCHANGED held
    \/ \E s \in SlotIds : GridConfirmRuns(s) /\ UNCHANGED held
    \/ \E s \in SlotIds, u \in OtherUsers :
          lockSlot(s, u, NoVersion) /\ WithinNotifyBound /\ GridHears /\ UNCHANGED held
    \/ \E l \in RequestLockIds, u \in OtherUsers :
          confirmBooking(l, u) /\ GridHears /\ UNCHANGED held
    \/ \E l \in RequestLockIds, u \in OtherUsers :
          releaseLock(l, u) /\ GridHears /\ UNCHANGED held
    \/ gcExpiredLocks /\ GridHears /\ UNCHANGED held
    \/ \E d \in TickSteps : Tick(d) /\ UNCHANGED callers

SpecClient == Init /\ [][NextClient]_vars

\* ---- vocabulary of the claims -------------------------------------------

MutatingOps == {"lockSlot", "confirmBooking", "releaseLock"}

Errors == {"NotFound", "VersionConflict", "AlreadyBooked", "LockedByOther",
           "LockNotFound", "LockExpired", "Forbidden"}

\* the slots on which a confirmBooking has succeeded
ConfirmedSlots == {g.slotId : g \in {h \in gone : h.by = "confirmBooking"}}

\* the locks a confirmBooking or a releaseLock has consumed
UsedLockIds == {g.lockId : g \in {h \in gone : h.by \in {"confirmBooking", "releaseLock"}}}

\* the locks on a slot, and those whose deadline has not passed
LocksOn(s) == {l \in DOMAIN locks : locks[l].slotId = s}
LiveLocksOn(s) == {l \in LocksOn(s) : now < locks[l].expiresAt}

\* ---- C1 -----------------------------------------------------------------
\* C1: once a confirmBooking has succeeded on a slot, no later lockSlot and no
\* later confirmBooking succeeds on that slot (so at most one confirm succeeds).
C1_NoDoubleBooking ==
    [][(last'.op \in {"lockSlot", "confirmBooking"} /\ last'.ok)
         => last'.slotId \notin ConfirmedSlots]_vars

\* ---- C2 -----------------------------------------------------------------
\* C2: all unexpired locks on one slot belong to one owner.
C2_SingleHolder ==
    \A s \in SlotIds : \A l1, l2 \in LiveLocksOn(s) : locks[l1].userId = locks[l2].userId

\* ---- C3 -----------------------------------------------------------------
\* C3: a slot is locked if and only if exactly one lock references it.
C3_LockedIffOneLease ==
    \A s \in SlotIds : (slots[s].status = "locked") <=> (Cardinality(LocksOn(s)) = 1)

\* ---- C4 -----------------------------------------------------------------
\* C4: after a successful confirmBooking the slot is booked, the lock is gone,
\* and the call returned that slot and the new version.
C4_ConfirmBooks ==
    (last.op = "confirmBooking" /\ last.ok)
        => /\ slots[last.slotId].status = "booked"
           /\ last.lockId \notin DOMAIN locks
           /\ last.slot = slots[last.slotId]
           /\ last.version = version

\* ---- C5 -----------------------------------------------------------------
\* C5: the version never decreases; a successful lockSlot, confirmBooking or
\* releaseLock, and a sweep that deletes at least one lock, add exactly 1, and
\* a successful call returns the version before it plus 1.
C5_VersionStepping ==
    [][/\ version' >= version
       /\ (last'.op \in MutatingOps /\ last'.ok)
            => (version' = version + 1 /\ last'.version = version + 1)
       /\ (last'.op = "gcExpiredLocks" /\ expiredLockIds # {})
            => version' = version + 1]_vars

\* ---- C6 -----------------------------------------------------------------
\* C6: a lockSlot, confirmBooking or releaseLock that returns an error leaves
\* the slots, the locks and the version as they were and calls no subscriber.
C6_FailureAtomicity ==
    [][(last'.op \in MutatingOps /\ ~last'.ok)
         => (last'.error \in Errors /\ UNCHANGED store /\ notified' = << >>)]_vars

\* an expired lock was refused by confirmBooking while an observer is subscribed
C6_Witness ==
    /\ last.op = "confirmBooking" /\ ~last.ok /\ last.error = "LockExpired"
    /\ last.lockId \in DOMAIN locks
    /\ Len(subscribers) > 0

\* ---- C7 -----------------------------------------------------------------
\* C7: of the lockSlot calls of distinct owners racing for one available slot
\* with the pre-lock version or none, the first to run succeeds and locks the
\* slot for its owner; every call of another owner that runs while the slot is
\* held returns LockedByOther or VersionConflict and changes nothing.
C7_ConcurrentAcquire ==
    [][(last'.op = "lockSlot" /\ last'.slotId \in SlotIds)
         => LET s == last'.slotId
                u == last'.userId
                ev == last'.expectedVersion
            IN /\ (slots[s].status = "locked" /\ slots[s].lockedBy # u)
                    => /\ ~last'.ok
                       /\ last'.error \in {"LockedByOther", "VersionConflict"}
                       /\ UNCHANGED store
               /\ (slots[s].status = "available" /\ ~slots[s].booked
                        /\ ev \in {NoVersion, version})
                    => /\ last'.ok
                       /\ slots'[s].status = "locked" /\ slots'[s].lockedBy = u
                       /\ version' = version + 1]_vars

\* the loser of a race: its call carried the pre-lock version and ran at the
\* instant the winner's lock was drawn
C7_Witness ==
    /\ last.op = "lockSlot" /\ ~last.ok /\ last.error = "VersionConflict"
    /\ last.expectedVersion = version - 1
    /\ last.slotId \in SlotIds
    /\ slots[last.slotId].status = "locked"
    /\ slots[last.slotId].lockedBy # last.userId
    /\ \E l \in LocksOn(last.slotId) : locks[l].expiresAt = now + LeaseTTL

\* ---- C8 -----------------------------------------------------------------
\* C8: a confirmBooking or releaseLock that names a lock an earlier successful
\* confirmBooking or releaseLock consumed fails with LockNotFound, whoever
\* calls, and changes nothing.
C8_LeaseSingleUse ==
    [][(last'.op \in {"confirmBooking", "releaseLock"} /\ last'.lockId \in UsedLockIds)
         => (~last'.ok /\ last'.error = "LockNotFound" /\ UNCHANGED store)]_vars

\* a release of a lock that was confirmed before
C8_Witness ==
    /\ last.op = "releaseLock" /\ ~last.ok /\ last.error = "LockNotFound"
    /\ \E g \in gone : g.lockId = last.lockId /\ g.by = "confirmBooking"

\* ---- C9 -----------------------------------------------------------------
\* C9: a confirmBooking succeeds only on a lock with now < expiresAt; with
\* expiresAt <= now it fails, also while the expired lock is still in the Map.
C9_ConfirmChecksExpiry ==
    [][(last'.op = "confirmBooking")
         => /\ last'.ok => (/\ last'.lockId \in DOMAIN locks
                            /\ now < locks[last'.lockId].expiresAt)
            /\ (last'.lockId \in DOMAIN locks /\ locks[last'.lockId].expiresAt <= now)
                 => ~last'.ok]_vars

\* a confirm at the deadline itself, refused before any sweep removed the lock
C9_Witness ==
    /\ last.op = "confirmBooking" /\ ~last.ok /\ last.error = "LockExpired"
    /\ last.lockId \in DOMAIN locks
    /\ locks[last.lockId].expiresAt = now
    /\ locks[last.lockId].userId = last.userId

\* ---- C10 ----------------------------------------------------------------
\* the locks a sweep deleted while it reverted their slot, with their owners
SweptLocks == {g \in gone : g.by = "gcExpiredLocks" /\ g.reverted}

\* C10 as stated: a confirmBooking by the owner of a lock that a sweep has
\* reclaimed returns LockExpired.
C10_ConfirmAfterSweepExpired ==
    [][(/\ last'.op = "confirmBooking"
        /\ \E g \in SweptLocks : g.lockId = last'.lockId /\ g.userId = last'.userId)
         => (~last'.ok /\ last'.error = "LockExpired")]_vars

\* C10 as amended: a confirmBooking by the owner of a lock that a sweep has
\* reclaimed returns LockNotFound.
C10_ConfirmAfterSweepNotFound ==
    [][(/\ last'.op = "confirmBooking"
        /\ \E g \in SweptLocks : g.lockId = last'.lockId /\ g.userId = last'.userId)
         => (~last'.ok /\ last'.error = "LockNotFound")]_vars

\* the owner confirmed a lock after the sweep that reclaimed it
C10_Witness ==
    /\ last.op = "confirmBooking" /\ ~last.ok /\ last.error = "LockNotFound"
    /\ \E g \in SweptLocks : /\ g.lockId = last.lockId /\ g.userId = last.userId
                             /\ slots[g.slotId].status = "available"

\* ---- C11 ----------------------------------------------------------------
\* C11: a sweep deletes every lock with expiresAt <= now and leaves the slot
\* of each available; a sweep that deletes at least one lock adds exactly 1 to
\* the version and calls every subscriber once.
C11_SweepReclaims ==
    [][(last'.op = "gcExpiredLocks")
         => /\ \A l \in expiredLockIds :
                  /\ l \notin DOMAIN locks'
                  /\ slots'[locks[l].slotId].status = "available"
            /\ (expiredLockIds # {})
                 => /\ version' = version + 1
                    /\ Len(notified') = Len(subscribers)]_vars

\* ---- C12 ----------------------------------------------------------------
\* C12: a sweep that finds no lock with expiresAt <= now changes neither the
\* slots, the locks nor the version and calls no subscriber; after any sweep no
\* expired lock is left, so a second sweep at the same instant is such a sweep.
C12_SweepIdempotent ==
    [][(last'.op = "gcExpiredLocks")
         => /\ (expiredLockIds = {}) => (UNCHANGED store /\ notified' = << >>)
            /\ {l \in DOMAIN locks' : locks'[l].expiresAt <= now'} = {}
            /\ (last.op = "gcExpiredLocks") => version' = version]_vars

\* a sweep ran right after a sweep that had reclaimed a lock, and found nothing
C12_Witness ==
    /\ last.op = "gcExpiredLocks" /\ ~last.ok
    /\ last.version = version
    /\ \E g \in gone : g.by = "gcExpiredLocks" /\ g.reverted
    /\ expiredLockIds = {}

\* ---- C13 ----------------------------------------------------------------
\* C13: a lockSlot on an existing slot with an expectedVersion that is given
\* (0 included) and differs from the version fails with VersionConflict and
\* changes nothing.
C13_VersionCheck ==
    [][(/\ last'.op = "lockSlot"
        /\ last'.slotId \in SlotIds
        /\ last'.expectedVersion # NoVersion
        /\ last'.expectedVersion # version)
         => (~last'.ok /\ last'.error = "VersionConflict" /\ UNCHANGED store)]_vars

\* ---- C14 ----------------------------------------------------------------
\* C14: on a lock owned by A, confirmBooking by B # A returns LockNotFound and
\* releaseLock by B returns Forbidden; the lock stays, the slot and the
\* version are unchanged.
C14_OwnerMismatch ==
    [][(/\ last'.op \in {"confirmBooking", "releaseLock"}
        /\ last'.lockId \in DOMAIN locks
        /\ locks[last'.lockId].userId # last'.userId)
         => /\ ~last'.ok
            /\ last'.error = IF last'.op = "confirmBooking" THEN "LockNotFound"
                             ELSE "Forbidden"
            /\ last'.lockId \in DOMAIN locks'
            /\ UNCHANGED store]_vars

\* a release by another caller was refused; the slot is still locked by the owner
C14_Witness ==
    /\ last.op = "releaseLock" /\ ~last.ok /\ last.error = "Forbidden"
    /\ last.lockId \in DOMAIN locks
    /\ locks[last.lockId].userId # last.userId
    /\ slots[locks[last.lockId].slotId].status = "locked"
    /\ slots[locks[last.lockId].slotId].lockedBy = locks[last.lockId].userId

\* ---- C17 ----------------------------------------------------------------
\* C17: lockedBy of a slot is set if and only if its status is locked.
C17_OwnerField ==
    \A s \in SlotIds : (slots[s].lockedBy # None) <=> (slots[s].status = "locked")

\* a release has reverted a slot, and it carries no owner
C17_Witness ==
    /\ last.op = "releaseLock" /\ last.ok
    /\ slots[last.slotId].status = "available"
    /\ slots[last.slotId].lockedBy = None
    /\ \E g \in gone : g.lockId = last.lockId /\ g.reverted

\* ---- C18 ----------------------------------------------------------------
\* C18: a lockSlot on a slot whose status is locked never succeeds and adds no
\* lock, whoever calls.
C18_NoReentrantAcquire ==
    [][(/\ last'.op = "lockSlot"
        /\ last'.slotId \in SlotIds
        /\ slots[last'.slotId].status = "locked")
         => (~last'.ok /\ locks' = locks)]_vars

\* ---- C20 ----------------------------------------------------------------
\* C20: while an owner holds an unexpired lock on a slot that is locked by that
\* owner, no sweep and no confirmBooking or releaseLock of another lock changes
\* the status or lockedBy of the slot.
C20_OnlyOwnLease ==
    [][(last'.op \in {"gcExpiredLocks", "confirmBooking", "releaseLock"})
         => \A s \in SlotIds : \A l \in LiveLocksOn(s) :
               (/\ slots[s].status = "locked"
                /\ slots[s].lockedBy = locks[l].userId
                /\ (last'.op = "gcExpiredLocks" \/ last'.lockId # l))
                 => /\ slots'[s].status = slots[s].status
                    /\ slots'[s].lockedBy = slots[s].lockedBy]_vars

\* ---- C15 ----------------------------------------------------------------
\* C15: a step that bumps the version calls, in that step, every observer
\* subscribed at that moment exactly once, in subscription order, with the new
\* version and the current slots, and calls no other observer; a step that
\* does not bump the version calls nobody; the versions delivered grow by 1
\* from bump to bump, so those an observer receives are strictly increasing.
C15_FanOut ==
    [][/\ \A i, j \in 1 .. Len(subscribers) :
             subscribers[i] = subscribers[j] => i = j
       /\ (version' # version)
            => /\ version' = version + 1
               /\ Len(notified') = Len(subscribers)
               /\ \A i \in 1 .. Len(subscribers) :
                     /\ notified'[i].to = subscribers[i]
                     /\ notified'[i].event.version = version'
                     /\ notified'[i].event.slots = slots'
       /\ (version' = version) => notified' = << >>]_vars

\* two observers are subscribed, o2 before o1: both were called, o2 first
C15_Witness ==
    /\ Len(notified) = 2
    /\ notified[1].to = "o2" /\ notified[2].to = "o1"
    /\ notified[1].event.version = version
    /\ notified[1].event.slots = slots
    /\ version > InitialVersion

\* ---- C19 ----------------------------------------------------------------
\* C19: the slot records of a snapshot handed out by listSlots or in an event
\* keep showing the slots as they were when it was handed out.
C19_SnapshotImmutable ==
    (held.from # None) => SnapshotView(held) = held.taken

\* ---- C16 ----------------------------------------------------------------
\* whatever state the component is in, its updater returns version and slots
\* as they are for every event whose version is not above the highest
\* version the component has seen in an event or a response
StaleEventsDropped ==
    \A v \in 0 .. grid.highest :
        LET g == GridOnEvent(grid, [type |-> "slots:update", slots |-> slots,
                                    version |-> v])
        IN  /\ g.version = grid.version
            /\ g.snapVersion = grid.snapVersion

\* C16: the component applies no event whose version is not greater than
\* every version it has seen in an event or a response, and through any
\* interleaving of events and responses its version never decreases and its
\* slots are never replaced by older ones.
C16_StaleEventsRejected ==
    /\ []StaleEventsDropped
    /\ [][/\ grid'.version >= grid.version
          /\ grid'.snapVersion >= grid.snapVersion
          /\ (grid'.snapVersion # grid.snapVersion)
               => grid'.snapVersion > grid.highest]_vars

\* the component took its slots from an event of another caller, newer than
\* the initial ones, and has then handled the response of a refused
\* acquisition of its own: events of versions 1 .. version are stale for it
C16_Witness ==
    /\ last.op = "lockSlot" /\ ~last.ok /\ last.userId = GridUser
    /\ grid.effect = "run"
    /\ grid.snapVersion > InitialVersion
    /\ grid.version = version
    /\ grid.highest = version
    /\ \E s \in SlotIds : grid.flows[s].phase = "idle"

\* ---- C22 ----------------------------------------------------------------
\* a booked slot is available, has no owner, and no lock names it
BookedSlotsUntouched ==
    \A s \in SlotIds :
        slots[s].booked => /\ slots[s].status = "available"
                           /\ slots[s].lockedBy = None
                           /\ LocksOn(s) = {}

\* the booked flag of every slot is what it was: a flag set at
\* initialization stays set, a flag not set then is never set
BookedFlagKept == \A s \in SlotIds : slots'[s].booked = slots[s].booked

\* C22 (as stated): a slot booked at initialization keeps its flag, stays
\* available with no owner and no lock, and every lockSlot on it returns
\* AlreadyBooked; the flag of a slot that starts false never becomes true.
C22_BookedPermanent ==
    /\ []BookedSlotsUntouched
    /\ [][/\ BookedFlagKept
          /\ (/\ last'.op = "lockSlot" /\ last'.slotId \in SlotIds
              /\ slots[last'.slotId].booked)
               => (~last'.ok /\ last'.error = "AlreadyBooked")]_vars

\* C22 (amended): the same, except that a lockSlot on such a slot is refused
\* with AlreadyBooked or, when its expectedVersion is given and differs from
\* the version, possibly with VersionConflict (the version is checked before
\* the flag); an expectedVersion that is absent or equal to the version gives
\* AlreadyBooked. The refusal changes nothing.
C22_BookedRefused ==
    /\ []BookedSlotsUntouched
    /\ [][/\ BookedFlagKept
          /\ (/\ last'.op = "lockSlot" /\ last'.slotId \in SlotIds
              /\ slots[last'.slotId].booked)
               => /\ ~last'.ok
                  /\ last'.error \in {"AlreadyBooked", "VersionConflict"}
                  /\ (last'.error = "VersionConflict")
                       => (last'.expectedVersion \notin {NoVersion, version})
                  /\ UNCHANGED store]_vars

\* a lockSlot on a booked slot was refused for its version, and the slot is
\* as it was initialized
C22_Witness ==
    /\ last.op = "lockSlot" /\ ~last.ok /\ last.error = "VersionConflict"
    /\ last.slotId \in SlotIds
    /\ slots[last.slotId] = [status |-> "available", lockedBy |-> None, booked |-> TRUE]
    /\ LocksOn(last.slotId) = {}

\* ---- C21 ----------------------------------------------------------------
\* C21: with time advancing and the sweep scheduled fairly, every lock that
\* is in the table is eventually removed from it, every slot that is locked
\* eventually is not, and a lock past its deadline does not stay in the table.
C21_LeasesEnd ==
    /\ \A l \in LiveLockIds : (l \in DOMAIN locks) ~> (l \notin DOMAIN locks)
    /\ \A s \in SlotIds : (slots[s].status = "locked") ~> (slots[s].status # "locked")
    /\ \A l \in LiveLockIds :
          (l \in DOMAIN locks /\ locks[l].expiresAt <= now) ~> (l \notin DOMAIN locks)

\* the clock ran up to the deadline of a pending lock, and the sweep then
\* removed that lock and reverted its slot
C21_Witness ==
    /\ now >= LeaseTTL
    /\ last.op = "gcExpiredLocks" /\ last.ok
    /\ locks = << >>
    /\ \E g \in gone : /\ g.by = "gcExpiredLocks" /\ g.reverted
                       /\ slots[g.slotId].status = "available"
====
